---------------------------- MODULE Spec2Model ----------------------------
(***************************************************************************)
(* Model of simple-todo-api: the four session-scoped CRUD handlers over    *)
(* the todos collection and the hourly job that removes expired sessions.  *)
(*                                                                         *)
(* Time is counted in units of the cookie's maxAge.  Strings that the code *)
(* inspects (todo text, ids) are sequences of one-character strings so     *)
(* that length and format checks are computed, not assumed.                *)
(*                                                                         *)
(* Each request is one action: the session middleware followed by the      *)
(* handler, which performs a single store operation.  Request ids are      *)
(* well-formed ObjectId strings and JSON bodies carry values of the right  *)
(* JSON type or omit them; store failures on the request path are left     *)
(* out.  The sweep is one action up to its await of Promise.all (its only  *)
(* effect before that is one read of the sessions collection), one action  *)
(* per store.destroy that completes, and one for the code after the await. *)
(*                                                                         *)
(* Two behaviours are decided by packages the repository only uses, and    *)
(* are nondeterministic here: whether store.destroy() returns a promise,   *)
(* and whether the web framework answers 500 for a rejected async handler  *)
(* or leaves the rejection unhandled, which ends the process.              *)
(***************************************************************************)
EXTENDS Integers, Sequences, FiniteSets, TLC

(* ------------------------------ bounds -------------------------------- *)
MaxTime == 2
MaxSessions == 2
MaxTodos == 2

(* cookie: { maxAge: 1000 * 60 * 60 * 24 * 30 }: one unit of model time *)
CookieMaxAge == 1

Clients == {"c1", "c2"}
SessionIds == 1..MaxSessions
NoCookie == 0

EmptyText == << >>

VARIABLES
  now,            \* wall clock
  alive,          \* the node process is running
  sessions,       \* the "sessions" collection: documents {_id, expires}
  nextSid,        \* next fresh session id
  cookie,         \* the session token each client holds
  todos,          \* the "todos" collection: documents {_id, text, completed, sessionId}
  nextOid,        \* next fresh ObjectId
  deleted,        \* history: <<_id, sessionId>> of the todos removed by DELETE
  last,           \* the last request and the response it got
  sweepPc,        \* position of the cron callback
  sweepExpired,   \* expiredSessionIds of the sweep in progress
  pendingDestroy, \* session ids whose store.destroy() is in flight
  queries,        \* session ids of the Todo.deleteMany() Query objects built and not executed
  abandoned,      \* history: the other expired sessions of a sweep that a rejected destroy ended
  sweepLog        \* what the last sweep logged

vars == <<now, alive, sessions, nextSid, cookie, todos, nextOid, deleted,
          last, sweepPc, sweepExpired, pendingDestroy, queries, abandoned, sweepLog>>

sessionVars == <<sessions, nextSid, cookie>>
sweepVars == <<sweepPc, sweepExpired, pendingDestroy, queries, abandoned, sweepLog>>

(* ------------------------- ids and their strings ----------------------- *)
HexDigits == <<"0","1","2","3","4","5","6","7","8","9","a","b","c","d","e","f">>
HexChars == {HexDigits[i] : i \in 1..16}

\* mongoose's `id` virtual: the 24 character hex string of the ObjectId _id
ObjectIdHex(n) ==
  [i \in 1..24 |-> IF i = 24 THEN HexDigits[(n % 16) + 1]
                   ELSE IF i = 23 THEN HexDigits[((n \div 16) % 16) + 1]
                   ELSE "0"]

\* mongoose casting the string of a filter's _id back to an ObjectId
HexValue(ch) == CHOOSE v \in 0..15 : HexDigits[v + 1] = ch
CastObjectId(s) == 16 * HexValue(s[23]) + HexValue(s[24])

\* z.string().uuid(): 8-4-4-4-12 hex digits separated by dashes
IsUuid(s) ==
  /\ Len(s) = 36
  /\ \A i \in 1..36 : IF i \in {9, 14, 19, 24} THEN s[i] = "-" ELSE s[i] \in HexChars

NoId == << >>
IdParams == {ObjectIdHex(n) : n \in 1..MaxTodos}

(* ------------------------------ bodies --------------------------------- *)
\* a JSON request body: text and completed may each be omitted
Body(ht, t, hc, c) == [hasText |-> ht, text |-> t, hasCompleted |-> hc, completed |-> c]
\* POST bodies: {text:"a"}, {text:"a",completed:true}, {text:""}, {completed:true}
CreateBodies ==
  {Body(TRUE, <<"a">>, FALSE, FALSE), Body(TRUE, <<"a">>, TRUE, TRUE),
   Body(TRUE, EmptyText, FALSE, FALSE), Body(FALSE, EmptyText, TRUE, TRUE)}
\* PATCH bodies: {completed:true}, {text:"b"}, {text:""}
PatchBodies ==
  {Body(FALSE, EmptyText, TRUE, TRUE), Body(TRUE, <<"b">>, FALSE, FALSE),
   Body(TRUE, EmptyText, FALSE, FALSE)}
NoBody == [hasText |-> FALSE, text |-> EmptyText, hasCompleted |-> FALSE, completed |-> FALSE]

\* createTodoDtoSchema.parse: the set of issue paths (empty when the body is accepted)
CreateTodoDtoIssues(b) ==
  IF b.hasText /\ Len(b.text) >= 1 THEN {} ELSE {"text"}

\* patchTodoDtoSchema.parse: both fields optional, text non-empty when present
PatchTodoDtoIssues(b) ==
  IF b.hasText /\ ~(Len(b.text) >= 1) THEN {"text"} ELSE {}

\* todoDtoSchema.parse(doc): reads doc.id, doc.text, doc.completed and drops the rest
TodoDtoIssues(doc) ==
  (IF IsUuid(ObjectIdHex(doc._id)) THEN {} ELSE {"id"})
    \cup (IF Len(doc.text) >= 1 THEN {} ELSE {"text"})
TodoDto(doc) == [id |-> ObjectIdHex(doc._id), text |-> doc.text, completed |-> doc.completed]

\* JSON.stringify of a mongoose document (its toJSON)
DocJson(doc) ==
  [_id |-> ObjectIdHex(doc._id), text |-> doc.text, completed |-> doc.completed,
   sessionId |-> doc.sessionId, __v |-> 0]

(* ------------------------------ Init ----------------------------------- *)
NoRequest ==
  [op |-> "none", token |-> NoCookie, expired |-> FALSE, sid |-> NoCookie,
   id |-> NoId, body |-> NoBody,
   status |-> 0, ok |-> FALSE, result |-> {}, error |-> {}, before |-> {}, after |-> {}]

Init ==
  /\ now = 0
  /\ alive = TRUE
  /\ sessions = {}
  /\ nextSid = 1
  /\ cookie = [c \in Clients |-> NoCookie]
  /\ todos = {}
  /\ nextOid = 1
  /\ deleted = {}
  /\ last = NoRequest
  /\ sweepPc = "idle"
  /\ sweepExpired = {}
  /\ pendingDestroy = {}
  /\ queries = {}
  /\ abandoned = {}
  /\ sweepLog = "none"

(* ------------------------------ clock ---------------------------------- *)
\* time passes; once the process has ended nothing further is observed
Tick ==
  /\ alive
  /\ now < MaxTime
  /\ now' = now + 1
  /\ UNCHANGED <<alive, sessions, nextSid, cookie, todos, nextOid, deleted,
                 last, sweepPc, sweepExpired, pendingDestroy, queries, abandoned, sweepLog>>

(* ------------------------- session middleware -------------------------- *)
\* ValidToken without the expiry test
ValidToken_AnyRecord(tok) == \E r \in sessions : r._id = tok

\* a token resolves to its session only while the record exists and its
\* expiresAt is not in the past
ValidToken(tok) == \E r \in sessions : r._id = tok /\ r.expires >= now

\* req.sessionID (and req.session.id) of a request carrying token tok
ResolveSid(tok) == IF ValidToken(tok) THEN tok ELSE nextSid

\* a request can be served: a fresh session id is left when one is needed
CanResolve(c) == ValidToken(cookie[c]) \/ nextSid <= MaxSessions

\* session({store, cookie: {maxAge}, saveUninitialized: true}): refresh a valid
\* session, otherwise create a fresh one and bind it to the caller
SessionMiddleware(c) ==
  LET tok == cookie[c] IN
  IF ValidToken(tok)
    THEN /\ sessions' = {IF r._id = tok THEN [r EXCEPT !.expires = now + CookieMaxAge] ELSE r :
                           r \in sessions}
         /\ UNCHANGED <<nextSid, cookie>>
    ELSE /\ nextSid <= MaxSessions
         /\ sessions' = sessions \cup {[_id |-> nextSid, expires |-> now + CookieMaxAge]}
         /\ cookie' = [cookie EXCEPT ![c] = nextSid]
         /\ nextSid' = nextSid + 1

(* ------------------------------ handlers ------------------------------- *)
\* the token names a session record whose expiry is in the past
TokenExpired(tok) == \E r \in sessions : r._id = tok /\ r.expires < now

\* a request of client c and its response: the token carried and whether its
\* session had expired, the session id the request was resolved to, the :id
\* parameter, the body, the status and JSON answered, and the todos
\* collection before and after the handler ran
Response(op, c, id, b, status, ok, result, error, after) ==
  [op |-> op, token |-> cookie[c], expired |-> TokenExpired(cookie[c]),
   sid |-> ResolveSid(cookie[c]), id |-> id, body |-> b,
   status |-> status, ok |-> ok, result |-> result, error |-> error,
   before |-> todos, after |-> after]

\* Todo.find({ sessionId: req.session.id })
FindBySession(sid) == {d \in todos : d.sessionId = sid}

\* app.get("/api/todos")
ListTodos(c) ==
  /\ alive
  /\ CanResolve(c)
  /\ LET sid == ResolveSid(cookie[c])
         found == IF sid = NoCookie THEN {} ELSE FindBySession(sid)
         issues == UNION {TodoDtoIssues(d) : d \in found}
     IN  \/ /\ issues = {}
            /\ SessionMiddleware(c)
            /\ last' = Response("list", c, NoId, NoBody, 200, TRUE,
                                {TodoDto(d) : d \in found}, {}, todos)
            /\ UNCHANGED alive
         \* the ZodError leaves the async handler uncaught: a framework that
         \* forwards rejected handlers answers 500 ...
         \/ /\ issues # {}
            /\ SessionMiddleware(c)
            /\ last' = Response("list", c, NoId, NoBody, 500, FALSE, {}, {}, todos)
            /\ UNCHANGED alive
         \* ... one that does not leaves an unhandled rejection, which ends the
         \* node process before any response or session is written
         \/ /\ issues # {}
            /\ alive' = FALSE
            /\ last' = Response("list", c, NoId, NoBody, 0, FALSE, {}, {}, todos)
            /\ UNCHANGED sessionVars
  /\ UNCHANGED <<now, todos, nextOid, deleted>>
  /\ UNCHANGED sweepVars

\* new Todo({ ...todoData, sessionId: req.sessionID }) with the schema's defaults
NewTodo(b, sid) ==
  [_id |-> nextOid, text |-> b.text,
   completed |-> IF b.hasCompleted THEN b.completed ELSE FALSE,
   sessionId |-> sid]

\* TodoSchema as validated by save(): text and sessionId are required
TodoSchemaIssues(doc) ==
  (IF Len(doc.text) = 0 THEN {"text"} ELSE {})
    \cup (IF doc.sessionId = NoCookie THEN {"sessionId"} ELSE {})

\* CreateCatch without .status(400)
CreateCatch_NoStatus(c, b, issues, after) ==
  Response("create", c, NoId, b, 200, FALSE, {}, issues, after)

\* catch (e) { res.status(400).json({ ok: false, error: e.errors }) }
CreateCatch(c, b, issues, after) ==
  Response("create", c, NoId, b, 400, FALSE, {}, issues, after)

\* app.post("/api/todos")
CreateTodo(c, b) ==
  /\ alive
  /\ SessionMiddleware(c)
  /\ LET sid == ResolveSid(cookie[c])
         issues == CreateTodoDtoIssues(b)
         doc == NewTodo(b, sid)
         saved == todos \cup {doc}
     IN  IF issues # {}
           THEN /\ last' = CreateCatch(c, b, issues, todos)
                /\ UNCHANGED <<todos, nextOid>>
           ELSE IF TodoSchemaIssues(doc) # {}
             THEN /\ last' = CreateCatch(c, b, TodoSchemaIssues(doc), todos)
                  /\ UNCHANGED <<todos, nextOid>>
             ELSE /\ nextOid <= MaxTodos
                  /\ todos' = saved
                  /\ nextOid' = nextOid + 1
                  \* todoDtoSchema.parse(todo) runs after the save, inside the try
                  /\ last' = IF TodoDtoIssues(doc) = {}
                               THEN Response("create", c, NoId, b, 200, TRUE,
                                             {TodoDto(doc)}, {}, saved)
                               ELSE CreateCatch(c, b, TodoDtoIssues(doc), saved)
  /\ UNCHANGED <<now, alive, deleted>>
  /\ UNCHANGED sweepVars

\* the filter { _id: req.params.id, sessionId: req.sessionID } of findOneAndUpdate
PatchMatch(id, sid) == {d \in todos : d._id = CastObjectId(id) /\ d.sessionId = sid}

\* ApplyPatch as a replacement of both fields, absent ones by their empty values
ApplyPatch_Overwrite(d, b) == [d EXCEPT !.text = b.text, !.completed = b.completed]

\* the update document todoData: only the fields the body carries
ApplyPatch(d, b) ==
  [d EXCEPT !.text = IF b.hasText THEN b.text ELSE @,
            !.completed = IF b.hasCompleted THEN b.completed ELSE @]

\* app.patch("/api/todos/:id")
PatchTodo(c, id, b) ==
  /\ alive
  /\ SessionMiddleware(c)
  /\ LET sid == ResolveSid(cookie[c])
         issues == PatchTodoDtoIssues(b)
         match == PatchMatch(id, sid)
     IN  IF issues # {}
           THEN /\ last' = Response("patch", c, id, b, 400, FALSE, {}, issues, todos)
                /\ UNCHANGED todos
           ELSE IF match = {}
             THEN /\ last' = Response("patch", c, id, b, 404, FALSE, {}, {"not_found"},
                                      todos)
                  /\ UNCHANGED todos
             ELSE LET d == CHOOSE x \in match : TRUE
                      u == ApplyPatch(d, b)
                      updated == (todos \ {d}) \cup {u}
                  IN  /\ todos' = updated
                      /\ last' = Response("patch", c, id, b, 200, TRUE, {DocJson(u)}, {},
                                          updated)
  /\ UNCHANGED <<now, alive, nextOid, deleted>>
  /\ UNCHANGED sweepVars

\* DeleteMatch with the filter reduced to { _id: id }
DeleteMatch_ByIdOnly(id, sid) == {d \in todos : d._id = CastObjectId(id)}

\* the filter { _id: id, sessionId: req.session.id } of findOneAndDelete
DeleteMatch(id, sid) == {d \in todos : d._id = CastObjectId(id) /\ d.sessionId = sid}

\* RemoveTodo as a findOne: the matched document stays
RemoveTodo_Keep(d) == todos

\* the collection after findOneAndDelete removed the matched document
RemoveTodo(d) == todos \ {d}

\* app.delete("/api/todos/:id")
DeleteTodo(c, id) ==
  /\ alive
  /\ SessionMiddleware(c)
  /\ LET sid == ResolveSid(cookie[c])
         match == DeleteMatch(id, sid)
         d == CHOOSE x \in match : TRUE
     IN  IF match = {}
           THEN /\ last' = Response("delete", c, id, NoBody, 404, FALSE, {}, {"not_found"},
                                    todos)
                /\ UNCHANGED <<todos, deleted>>
           ELSE /\ todos' = RemoveTodo(d)
                /\ deleted' = deleted \cup {<<d._id, d.sessionId>>}
                /\ last' = Response("delete", c, id, NoBody, 200, TRUE, {}, {},
                                    RemoveTodo(d))
  /\ UNCHANGED <<now, alive, nextOid>>
  /\ UNCHANGED sweepVars

(* ------------------------------ the sweep ------------------------------ *)
requestVars == <<now, alive, nextSid, cookie, todos, nextOid, deleted, last>>

\* the sweep's filter: expiryDate.getTime() < now.getTime()
IsExpired(session, t) == session.expires < t

\* Object.values(sessions).filter(expired).map(session => session._id)
ExpiredSessionIds(all, t) == {r._id : r \in {x \in all : IsExpired(x, t)}}

\* SweepCatch rethrowing: the rejection of the async callback is unhandled
SweepCatch_Rethrow ==
  /\ alive' = FALSE
  /\ sweepPc' = "idle"
  /\ sweepExpired' = {}
  /\ queries' = {}
  /\ UNCHANGED sweepLog

\* what the catch block of the callback does with an error
SweepCatch ==
  /\ sweepLog' = "error"
  /\ sweepPc' = "idle"
  /\ sweepExpired' = {}
  /\ queries' = {}
  /\ UNCHANGED alive

\* nodeCron.schedule("0 * * * *", ...): the callback runs from the cron tick,
\* through getAllSessions() (one read of the sessions collection), up to its
\* await of Promise.all
SweepTick ==
  /\ alive
  /\ sweepPc = "idle"
  /\ abandoned' = {}
  /\ \/ \* store.all failed: the promise rejects into the catch block
        /\ SweepCatch
        /\ UNCHANGED pendingDestroy
     \/ \* store.destroy returns a promise: every destroy is issued, each
        \* Todo.deleteMany({sessionId}) Query is built as the argument of .then,
        \* which ignores an argument that is not a function
        /\ LET expired == ExpiredSessionIds(sessions, now) IN
           /\ sweepExpired' = expired
           /\ pendingDestroy' = pendingDestroy \cup expired
           /\ queries' = expired
        /\ sweepPc' = "awaiting"
        /\ sweepLog' = "none"
        /\ UNCHANGED alive
     \/ \* store.destroy returns undefined (a callback-style store): the first
        \* destroy is issued and reading .then of its result throws
        /\ LET expired == ExpiredSessionIds(sessions, now) IN
           /\ expired # {}
           /\ \E first \in expired : pendingDestroy' = pendingDestroy \cup {first}
        /\ SweepCatch
  /\ UNCHANGED <<now, sessions, nextSid, cookie, todos, nextOid, deleted, last>>

\* a store.destroy(sessionId) in flight completes
DestroyDone(s) ==
  /\ alive
  /\ s \in pendingDestroy
  /\ pendingDestroy' = pendingDestroy \ {s}
  /\ \/ \* deleteOne succeeded
        /\ sessions' = {r \in sessions : r._id # s}
        /\ UNCHANGED <<sweepPc, sweepLog, sweepExpired, queries, abandoned>>
     \/ \* deleteOne failed: Promise.all rejects into the catch block when the
        \* callback is awaiting it; otherwise the store's "error" listener logs it
        /\ UNCHANGED sessions
        /\ IF sweepPc = "awaiting" /\ s \in sweepExpired
             THEN SweepCatch /\ abandoned' = sweepExpired \ {s}
             ELSE /\ UNCHANGED <<sweepPc, sweepLog, sweepExpired, queries>>
                  /\ abandoned' = abandoned \ {s}
  /\ UNCHANGED requestVars

\* Promise.all resolved: console.log(`Cleaned up ${expiredSessionIds.length} ...`)
SweepFinish ==
  /\ alive
  /\ sweepPc = "awaiting"
  /\ sweepExpired \cap pendingDestroy = {}
  /\ sweepPc' = "idle"
  /\ sweepLog' = "cleaned"
  /\ sweepExpired' = {}
  /\ queries' = {}
  /\ UNCHANGED <<pendingDestroy, sessions, abandoned>>
  /\ UNCHANGED requestVars

Next ==
  \/ Tick
  \/ \E c \in Clients : ListTodos(c)
  \/ \E c \in Clients, b \in CreateBodies : CreateTodo(c, b)
  \/ \E c \in Clients, id \in IdParams, b \in PatchBodies : PatchTodo(c, id, b)
  \/ \E c \in Clients, id \in IdParams : DeleteTodo(c, id)
  \/ SweepTick
  \/ \E s \in SessionIds : DestroyDone(s)
  \/ SweepFinish

Spec == Init /\ [][Next]_vars

(* ======================= properties of the handlers ==================== *)
\* the ObjectId named by the :id parameter of the last request
LastOid == CastObjectId(last.id)
\* the last request was a PATCH whose body patchTodoDtoSchema accepts
WellFormedPatch == last.op = "patch" /\ PatchTodoDtoIssues(last.body) = {}
\* C1: session isolation. A successful List returns only todos of the
\* requesting session; a DELETE or a well-formed PATCH naming a todo of another
\* session answers 404 not_found (a malformed PATCH body answers 400), and the
\* todo stays in the collection with the same text, completed and sessionId.
C1_SessionIsolation ==
  /\ (last.op = "list" /\ last.ok) =>
        \A r \in last.result : \A d \in last.before :
           ObjectIdHex(d._id) = r.id => d.sessionId = last.sid
  /\ (last.op \in {"patch", "delete"}) =>
        \A d \in last.before :
           (d._id = LastOid /\ d.sessionId # last.sid) =>
              /\ last.status = IF last.op = "delete" \/ WellFormedPatch THEN 404 ELSE 400
              /\ last.error = IF last.status = 404 THEN {"not_found"} ELSE {"text"}
              /\ ~last.ok
              /\ d \in last.after
              /\ last.after = last.before

C1_Witness ==
  /\ WellFormedPatch
  /\ last.status = 404
  /\ \E d \in last.before : d._id = LastOid /\ d.sessionId # last.sid /\ d \in todos

\* C3: Create then List. A Create with a non-empty text and no completed is
\* answered 200 with the todo (that text, completed = false), and a List
\* answers 200 with every todo of the requesting session.
C3_CreateThenList ==
  /\ (last.op = "create" /\ last.body.hasText /\ Len(last.body.text) >= 1
        /\ ~last.body.hasCompleted) =>
        /\ last.status = 200 /\ last.ok
        /\ \E r \in last.result : r.text = last.body.text /\ r.completed = FALSE
  /\ (last.op = "list") =>
        /\ last.status = 200 /\ last.ok
        /\ \A d \in last.before :
             d.sessionId = last.sid =>
               \E r \in last.result : r.text = d.text /\ r.completed = d.completed

\* C4: partial patch. A successful Update replaces, in the todo matched by id
\* and session, exactly the fields its body carries (so {completed: true}
\* keeps the text); _id and sessionId stay and every other todo is untouched.
C4_PartialPatch ==
  (last.op = "patch" /\ last.status = 200) =>
     \E d \in last.before :
        /\ d._id = LastOid /\ d.sessionId = last.sid
        /\ LET u == [_id |-> d._id,
                     sessionId |-> d.sessionId,
                     text |-> IF last.body.hasText THEN last.body.text ELSE d.text,
                     completed |-> IF last.body.hasCompleted THEN last.body.completed
                                   ELSE d.completed]
           IN  last.after = (last.before \ {d}) \cup {u}

C4_Witness ==
  /\ last.op = "patch" /\ last.status = 200
  /\ ~last.body.hasText /\ last.body.hasCompleted /\ last.body.completed
  /\ Cardinality(last.after) = 2
  /\ \E d \in last.before : d._id = LastOid /\ ~d.completed /\ d.text = <<"a">>
  /\ \E u \in last.after : u._id = LastOid /\ u.completed /\ u.text = <<"a">>

\* C5: delete twice. A Delete of an existing todo of the requesting session
\* answers 200 and removes exactly that todo; any later Delete, or well-formed
\* Update, of the same id by that session answers 404 and changes nothing.
DeletedBefore ==
  IF last.op = "delete" /\ last.status = 200
    THEN deleted \ {<<LastOid, last.sid>>}
    ELSE deleted

C5_DeleteTwice ==
  /\ (last.op = "delete") =>
        \A d \in last.before :
           (d._id = LastOid /\ d.sessionId = last.sid) =>
              last.status = 200 /\ last.ok /\ last.after = last.before \ {d}
  /\ (last.op = "delete" /\ last.status = 200) =>
        \E d \in last.before : d._id = LastOid /\ d.sessionId = last.sid
  /\ ((last.op = "delete" \/ WellFormedPatch) /\ <<LastOid, last.sid>> \in DeletedBefore) =>
        /\ last.status = 404 /\ last.error = {"not_found"}
        /\ last.after = last.before

C5_Witness ==
  /\ last.op = "delete" /\ last.status = 404
  /\ <<LastOid, last.sid>> \in deleted
  /\ todos # {}

\* C6: create validation. A Create whose text is missing or empty answers
\* 400, ok:false, with a validation issue for `text`, and adds no todo.
C6_CreateValidation ==
  (last.op = "create" /\ (~last.body.hasText \/ last.body.text = EmptyText)) =>
     /\ last.status = 400 /\ ~last.ok
     /\ "text" \in last.error
     /\ last.result = {}
     /\ last.after = last.before
     /\ todos = last.before

C6_Witness ==
  /\ last.op = "create" /\ last.body.hasText /\ last.body.text = EmptyText
  /\ last.status = 400 /\ last.error = {"text"}

\* C9: response shape. Every item a response carries has exactly the fields
\* id, text and completed.
C9_ResponseShape ==
  \A r \in last.result : DOMAIN r = {"id", "text", "completed"}

(* ======================== properties of the sweep ====================== *)
SweepStep == SweepTick \/ SweepFinish \/ \E s \in SessionIds : DestroyDone(s)

\* C2: sweep postcondition. When a sweep finishes, every session it found
\* expired is gone from the sessions collection and so are its todos; no step
\* of a sweep removes or changes a session that is not expired, or its todos.
C2_SweepPostcondition ==
  [][ /\ SweepFinish =>
           \A s \in sweepExpired :
              /\ \A r \in sessions' : r._id # s
              /\ \A d \in todos' : d.sessionId # s
      /\ SweepStep =>
           \A r \in sessions :
              ~IsExpired(r, now) =>
                 /\ r \in sessions'
                 /\ \A d \in todos : d.sessionId = r._id => d \in todos'
    ]_vars

\* C7: sweep error containment. The process ends only through a request (the
\* List whose rejection goes unhandled), never through the sweep; after a
\* sweep logged an error the callback is idle again and the next tick can run.
C7_SweepErrorContained ==
  /\ ~alive => (last.op = "list" /\ last.status = 0)
  /\ (alive /\ sweepLog = "error") => (sweepPc = "idle" /\ ENABLED SweepTick)

C7_Witness ==
  /\ alive /\ sweepLog = "error" /\ sweepPc = "idle"
  /\ pendingDestroy # {}

\* C8: an expired session authorizes nothing. A request carrying the token of
\* a session whose expiry is in the past is resolved to another session id,
\* returns none of the expired session's todos and leaves all of them in place.
C8_ExpiredSessionUnusable ==
  (last.op # "none" /\ last.expired) =>
     /\ last.sid # last.token
     /\ \A d \in last.before :
          d.sessionId = last.token =>
            /\ d \in last.after
            /\ \A r \in last.result : r \notin {TodoDto(d), DocJson(d)}

C8_Witness ==
  /\ last.op = "patch" /\ last.status = 404 /\ last.expired
  /\ \E r \in sessions : r._id = last.token /\ r.expires < now
  /\ \E d \in todos : d.sessionId = last.token /\ d._id = LastOid

\* C10: ordering inside one session's cleanup. No todo of a session is removed
\* while that session's destroy is still in flight, and when the sweep
\* finishes the deleteMany built for each cleaned session has been executed:
\* no Query is left unexecuted and no todo of the session is left.
C10_ItemsDeletedAfterSession ==
  [][ /\ \A s \in pendingDestroy \cap pendingDestroy' :
           \A d \in todos : d.sessionId = s => d \in todos'
      /\ SweepFinish =>
           \A s \in queries : \A d \in todos' : d.sessionId # s
    ]_vars

\* C11: per-session failure isolation. When a destroy of a sweep that found
\* several expired sessions was rejected, then, once nothing of that sweep is
\* in flight any more, every other expired session of the sweep whose own
\* cleanup did not fail is gone from the sessions collection and so are its todos.
C11_OtherCleanupsCompleted ==
  (sweepPc = "idle" /\ pendingDestroy = {}) =>
     \A s \in abandoned :
        /\ \A r \in sessions : r._id # s
        /\ \A d \in todos : d.sessionId # s


\* C12: a Create answered with a failure (status 400, ok false) leaves the
\* todos collection as it was before the request; every todo a Create saves
\* is answered with status 200, ok true and the saved todo as the result.
C12_CreateFailureNoEffect ==
  (last.op = "create") =>
     /\ (last.status = 400 /\ ~last.ok) => last.after = last.before
     /\ \A d \in last.after \ last.before :
          last.status = 200 /\ last.ok /\ last.result = {TodoDto(d)}

=============================================================================
